---------------------------- MODULE Spec2Model ----------------------------
(***************************************************************************)
(* A model of alias-panel's panel package: the text shaper (truncate,      *)
(* minHeight), the box renderer (drawSection), the column packer           *)
(* (maxColumns, maxColumnWidth, drawPanels) and the display controller     *)
(* (DrawScreen: the input-polling goroutine and the main goroutine).       *)
(*                                                                         *)
(* A text is a sequence of characters (runes).  "a" stands for any         *)
(* one-byte rune, "E" for a two-byte rune such as U+00E9, "." for the full *)
(* stop of the ellipsis marker.  Go's len(s) is the BYTE length of s and   *)
(* []rune(s) its characters; the model keeps both.                         *)
(***************************************************************************)
EXTENDS Integers, Sequences, FiniteSets, TLC

VARIABLES
    build,          \* the toolchain the binary was built with (see BuilderGrow)
    sm,             \* the sections, in sorted label order (sls / sm[sl])
    m,              \* the margin given on the command line
    pcPoll,         \* the input-polling goroutine: "poll", "column", "block", "returned", "panicked"
    pcMain,         \* the main goroutine: "select" (blocked on quit), "done" (after Fini)
    quit,           \* the quit channel: "open" or "closed"
    closes,         \* how many times close(quit) has run
    surface,        \* the tcell screen: "live" or "released" (after Fini)
    usedAfterFini,  \* some Sync/Clear/SetContent/Show ran on a released screen
    lastKey,        \* the key of the last key event PollEvent returned ("none" before any)
    lastOp,         \* the last surface operation and the goroutine that did it
    vw, vh,         \* drawPanels: w, h := s.Size()
    nc, pw,         \* drawPanels: column count and panel width
    c, py, p,       \* drawPanels: column index, row cursor, block cursor
    drawn,          \* the frames drawBox has drawn since the last Clear
    helpShown,      \* the help message has been emitted since the last Clear
    passEnd,        \* how the last layout pass ended ("none", "running", ...)
    failed,         \* index of the block whose drawSection returned an error (0: none)
    mhWidths,       \* the widths minHeight has been called with in the last pass
    call,           \* pure-function harness: the call being made
    ret             \* pure-function harness: its result

vars == <<build, sm, m, pcPoll, pcMain, quit, closes, surface, usedAfterFini,
          lastKey, lastOp, vw, vh, nc, pw, c, py, p, drawn, helpShown,
          passEnd, failed, mhWidths, call, ret>>

ctlVars == <<build, sm, m, pcPoll, pcMain, quit, closes, surface, usedAfterFini,
             lastKey, lastOp, vw, vh, nc, pw, c, py, p, drawn, helpShown,
             passEnd, failed, mhWidths>>

-----------------------------------------------------------------------------
(* Program constants (panel package, const block). *)
minWindowWidth == 10
minWindowHeight == 10
minPanelWidth == 40
maxPanelWidth == 50

(* Bounds of the model. *)
MaxSections == 3        \* sections in the collection
MaxMargin == 7          \* margins 0..MaxMargin
MaxViewHeight == 11     \* viewport heights 9..MaxViewHeight
MaxViewWidth == 110     \* widths given to maxColumns on its own: 0..MaxViewWidth
MaxTextChars == 8       \* characters of a text given to truncate
MaxTruncWidth == 8      \* widths given to truncate: -1..MaxTruncWidth
MaxBoxSide == 3     \* largest w and h drawTextBox is called with on its own
MaxItemChars == 4   \* most characters of an item text of a section drawn on its own

-----------------------------------------------------------------------------
(* Go integer arithmetic: / truncates toward zero, % takes the sign of the *)
(* dividend.  TLA+'s \div and % floor, so both are spelled out.            *)
Abs(x) == IF x < 0 THEN -x ELSE x

Quot(a, b) ==
    LET q == Abs(a) \div Abs(b)
    IN IF (a < 0) = (b < 0) THEN q ELSE -q

Rem(a, b) == a - b * Quot(a, b)

-----------------------------------------------------------------------------
(* Texts. *)
Chars == {"a", "E"}

RuneLen(ch) == IF ch = "E" THEN 2 ELSE 1

RECURSIVE ByteLen(_)
ByteLen(s) == IF s = <<>> THEN 0 ELSE RuneLen(Head(s)) + ByteLen(Tail(s))

Ascii(n) == [i \in 1..n |-> "a"]

Ellipsis == <<".", ".", ".">>

(* The toolchains.  strings.Builder.Grow(n) promises capacity for at least *)
(* n more bytes: runtimes before Go 1.22 allocate exactly n, current ones  *)
(* round the allocation up to its size class ("rounded").  WriteRune of a  *)
(* multi-byte rune appends it from Go 1.19 on ("exact", "rounded"); up to  *)
(* Go 1.18 it first grows the buffer to 2*cap+4 whenever fewer than        *)
(* utf8.UTFMax = 4 bytes are free, even if the rune fits ("legacy").       *)
Builds == {"legacy", "exact", "rounded"}

UTFMax == 4

(* The allocator's size classes for small byte slices: multiples of 8 up   *)
(* to 32, then multiples of 16 (up to 128, beyond every size used here).   *)
RoundUpSize(n) ==
    IF n <= 0 THEN 0
    ELSE IF n <= 32 THEN ((n + 7) \div 8) * 8
    ELSE ((n + 15) \div 16) * 16

(* b.Grow(w) on an empty builder, then b.Cap(). Grow(0) allocates nothing. *)
BuilderGrow(w, bld) ==
    IF w = 0 THEN 0
    ELSE IF bld = "rounded" THEN RoundUpSize(w)
    ELSE w

(* append growing a full buffer: capacity doubles (or just fits), rounded  *)
(* up to a size class.                                                     *)
AppendCap(old, needed) ==
    RoundUpSize(IF needed > 2 * old THEN needed ELSE 2 * old)

(* b.WriteRune(ch).  A one-byte rune, and from Go 1.19 on every rune, is   *)
(* appended: the buffer grows when the rune does not fit.  A multi-byte    *)
(* rune in a "legacy" build: if cap - len < utf8.UTFMax the buffer is      *)
(* replaced by one of capacity 2*cap + 4, then the rune is encoded.        *)
WriteRune(b, ch, bld) ==
    LET l == ByteLen(b.buf)
        n == l + RuneLen(ch)
    IN [buf |-> Append(b.buf, ch),
        cap |-> IF bld = "legacy" /\ RuneLen(ch) > 1
                THEN IF b.cap - l < UTFMax THEN 2 * b.cap + UTFMax ELSE b.cap
                ELSE IF n > b.cap THEN AppendCap(b.cap, n) ELSE b.cap]

(* for ; i < b.Cap()-off; i++ { b.WriteRune(rs[i]) }   (i is 0-based;      *)
(* rs[i] panics when i >= len(rs)).  b.Cap() is read on every iteration.   *)
RECURSIVE WriteLoop(_, _, _, _, _)
WriteLoop(rs, i, b, off, bld) ==
    IF i < b.cap - off
    THEN IF i >= Len(rs)
         THEN [panic |-> TRUE, i |-> i, b |-> b]
         ELSE WriteLoop(rs, i + 1, WriteRune(b, rs[i + 1], bld), off, bld)
    ELSE [panic |-> FALSE, i |-> i, b |-> b]

(* truncate(s, w): kind is "err" (error returned), "panic" (index out of   *)
(* range) or "ok" with the string returned.                                *)
truncate(s, w, bld) ==
    IF w < 0 THEN [kind |-> "err", val |-> <<>>]
    ELSE IF ByteLen(s) <= w THEN [kind |-> "ok", val |-> s]
    ELSE LET b0 == [buf |-> <<>>, cap |-> BuilderGrow(w, bld)]
             r1 == WriteLoop(s, 0, b0, 3, bld)
         IN IF r1.panic THEN [kind |-> "panic", val |-> <<>>]
            ELSE IF ByteLen(r1.b.buf) > 0
                 THEN [kind |-> "ok", val |-> r1.b.buf \o Ellipsis]
                 ELSE LET r2 == WriteLoop(s, r1.i, r1.b, 0, bld)
                      IN IF r2.panic THEN [kind |-> "panic", val |-> <<>>]
                         ELSE [kind |-> "ok", val |-> r2.b.buf]

(* minHeight(w, t) for a text of n bytes; w = 0 is a division by zero,     *)
(* which the callers of MinHeight model as a panic.                        *)
minHeight(w, n) ==
    LET h == Quot(n, w)
    IN IF Rem(n, w) > 0 THEN h + 1 ELSE h

(* drawTextBox's inner loop, for j := 0; j < w; j++: one line of at most w *)
(* characters.  n is len(tt), the BYTE length; rs[i] panics when i is not  *)
(* below the number of characters.  "end": i reached len(tt), the partial  *)
(* line is emitted and the outer loop is left; "full": w characters.       *)
RECURSIVE LineLoop(_, _, _, _, _, _)
LineLoop(rs, n, i, j, w, line) ==
    IF j < w
    THEN IF i >= n THEN [kind |-> "end", i |-> i, line |-> line]
         ELSE IF i >= Len(rs) THEN [kind |-> "panic", i |-> i, line |-> line]
         ELSE LineLoop(rs, n, i + 1, j + 1, w, Append(line, rs[i + 1]))
    ELSE [kind |-> "full", i |-> i, line |-> line]

(* drawTextBox's outer loop, for i < len(tt): the lines emitted.  With     *)
(* w = 0 the loop would never advance ("hang"); tt is empty then.          *)
RECURSIVE TextLoop(_, _, _, _, _)
TextLoop(rs, n, i, w, lines) ==
    IF i < n
    THEN IF w = 0 THEN [kind |-> "hang", lines |-> lines]
         ELSE LET r == LineLoop(rs, n, i, 0, w, <<>>)
              IN IF r.kind = "panic" THEN [kind |-> "panic", lines |-> lines]
                 ELSE IF r.kind = "end"
                      THEN [kind |-> "ok", lines |-> Append(lines, r.line)]
                      ELSE TextLoop(rs, n, r.i, w, Append(lines, r.line))
    ELSE [kind |-> "ok", lines |-> lines]

(* drawTextBox(s, x, y, w, h, st, t): kind "err", "panic" or "ok" with the *)
(* lines emitted, top to bottom.                                           *)
drawTextBox(t, w, h, bld) ==
    IF w < 0 \/ h < 0 THEN [kind |-> "err", lines |-> <<>>]
    ELSE LET tt == truncate(t, h * w, bld)
         IN IF tt.kind # "ok" THEN [kind |-> tt.kind, lines |-> <<>>]
            ELSE TextLoop(tt.val, ByteLen(tt.val), 0, w, <<>>)

-----------------------------------------------------------------------------
(* Column packer arithmetic. *)

(* maxColumns with a division that floors instead of truncating.           *)
maxColumnsFloor(w, miw, maw) ==
    LET as == w - 2
        x2 == as \div (maw + 2)
    IN IF x2 = 0 THEN 1 ELSE x2

(* maxColumns: the assignment nc = x2 follows the if and overwrites it.    *)
maxColumns(w, miw, maw) ==
    LET as == w - 2
        x1 == Quot(as, miw + 2)
        x2 == Quot(as, maw + 2)
        nc1 == IF x1 > x2 THEN x1 ELSE 0
        nc2 == x2
    IN IF nc2 = 0 THEN 1 ELSE nc2

maxColumnWidth(w, ncols, mg) == Quot(w - (1 + ncols) * mg, ncols)

-----------------------------------------------------------------------------
(* Box renderer. drawSection works on a section's texts: [label |-> the   *)
(* label, aliases |-> the items' "name: cmd" texts, in sorted name order]. *)
(* The controller below keeps a section by its lengths, [label |->         *)
(* characters of the label, aliases |-> byte lengths of the item texts],   *)
(* of one-byte characters; SectionTexts gives its texts and SectionShape   *)
(* the lengths of a section of texts.                                      *)
SectionTexts(sn) ==
    [label |-> Ascii(sn.label),
     aliases |-> [k \in 1..Len(sn.aliases) |-> Ascii(sn.aliases[k])]]

SectionShape(st) ==
    [label |-> Len(st.label),
     aliases |-> [k \in 1..Len(st.aliases) |-> ByteLen(st.aliases[k])]]

(* drawSection's body loop from item k on.  items: the items handed to     *)
(* drawTextBox that came back; cut: the out-of-bounds short-circuit broke  *)
(* the loop; rows: the rows body lines were emitted on.  A drawTextBox     *)
(* error is logged and the loop goes on; a panic ends everything.          *)
RECURSIVE BodyLoop(_, _, _, _, _, _, _, _)
BodyLoop(as, k, ay, y, aw, h, bld, acc) ==
    IF k > Len(as) THEN acc
    ELSE LET ah == minHeight(aw, ByteLen(as[k]))
         IN IF (ay + ah) - y >= h THEN [acc EXCEPT !.cut = TRUE]
            ELSE LET tb == drawTextBox(as[k], aw, ah, bld)
                     got == [acc EXCEPT
                               !.rows = @ \cup {ay + i - 1 : i \in 1..Len(tb.lines)}]
                 IN IF tb.kind \in {"panic", "hang"}
                    THEN [got EXCEPT !.kind = "panic"]
                    ELSE BodyLoop(as, k + 1, ay + ah, y, aw, h, bld,
                                  [got EXCEPT !.items = @ + 1])

(* drawSection(s, x, y, w, h, sn): kind "err" (an error is returned),      *)
(* "panic" or "ok"; box says whether drawBox has drawn the frame; items,   *)
(* cut and rows are the body loop's.                                       *)
drawSection(x, y, w, h, st, bld) ==
    LET none == [kind |-> "ok", box |-> TRUE, items |-> 0, cut |-> FALSE,
                 rows |-> {}]
    IN IF x < 0 \/ y < 0 \/ w < 0 \/ h < 0
       THEN [none EXCEPT !.kind = "err", !.box = FALSE]
       ELSE LET ltext == truncate(st.label, w - 4, bld)
            IN IF ltext.kind # "ok"
               THEN [none EXCEPT !.kind = ltext.kind]
               ELSE BodyLoop(st.aliases, 1, y + 1, y, w - 2, h, bld, none)

-----------------------------------------------------------------------------
(* Column packer: drawPanels. *)

(* if w < minWindowWidth || h < minWindowHeight { return } *)
TooSmallBoth(w, h) == w < minWindowWidth /\ h < minWindowHeight

TooSmall(w, h) == w < minWindowWidth \/ h < minWindowHeight

(* bh: the sum of minHeight(w, btext) over the section's items. *)
RECURSIVE SumHeights(_, _, _)
SumHeights(as, k, w) ==
    IF k > Len(as) THEN 0 ELSE minHeight(w, as[k]) + SumHeights(as, k + 1, w)

BodyHeight(sn, w) == SumHeights(sn.aliases, 1, w)

(* if py+bh-1 >= (h - 2) { continue loop } *)
ColumnIsFullLate(y, bh, h) == y + bh - 1 > h - 2

ColumnIsFull(y, bh, h) == y + bh - 1 >= h - 2

(* px := m + (pw+m)*(c) *)
PanelX == m + (pw + m) * c

CurSection == sm[p + 1]

Frame(r, bh) ==
    [blk |-> p + 1, col |-> c, x |-> PanelX, y |-> py, w |-> pw, h |-> bh + 2,
     items |-> r.items]

-----------------------------------------------------------------------------
(* Display controller: DrawScreen. *)

(* The inputs. *)
SectionShapes ==
    {[label |-> 3, aliases |-> <<4>>],
     [label |-> 7, aliases |-> <<5, 4>>]}

Collections == UNION {[1..n -> SectionShapes] : n \in 0..MaxSections}

(* The -margin flag through strconv.Atoi: the margins m >= 0 up to        *)
(* MaxMargin.                                                              *)
Margins == 0..MaxMargin

ViewWidths == {9, 10, 106}
ViewHeights == 9..MaxViewHeight
Runes == {"q", "Q", "x"}

(* The state when the polling goroutine starts: the screen is initialised  *)
(* and cleared by the main goroutine, quit is made.                        *)
Init ==
    /\ build \in Builds
    /\ sm \in Collections
    /\ m \in Margins
    /\ pcPoll = "poll" /\ pcMain = "select" /\ quit = "open" /\ closes = 0
    /\ surface = "live" /\ usedAfterFini = FALSE
    /\ lastKey = "none" /\ lastOp = [op |-> "clear", by |-> "main"]
    /\ vw = 0 /\ vh = 0 /\ nc = 0 /\ pw = 0 /\ c = 0 /\ py = 0 /\ p = 0
    /\ drawn = <<>> /\ helpShown = FALSE /\ passEnd = "none" /\ failed = 0
    /\ mhWidths = {}
    /\ call = [fn |-> "none"] /\ ret = [kind |-> "none"]

(* A surface operation of the polling goroutine. *)
PollOp(op) ==
    /\ lastOp' = [op |-> op, by |-> "poll"]
    /\ usedAfterFini' = (usedAfterFini \/ surface = "released")

pollFrame == <<build, sm, m, pcMain, quit, closes, surface, call, ret>>

(* case *tcell.EventResize: s.Sync(); s.Clear(); drawPanels(s, sm, m),     *)
(* when the viewport is below the minimum: drawPanels returns at once.     *)
ResizeTooSmall(w, h) ==
    /\ pcPoll = "poll"
    /\ TooSmall(w, h)
    /\ PollOp("clear")
    /\ vw' = w /\ vh' = h
    /\ drawn' = <<>> /\ helpShown' = FALSE /\ failed' = 0 /\ mhWidths' = {}
    /\ nc' = 0 /\ pw' = 0 /\ c' = 0 /\ py' = 0 /\ p' = 0
    /\ passEnd' = "small"
    /\ UNCHANGED <<pollFrame, pcPoll, lastKey>>

(* The same event with a viewport of at least the minimum size: the help   *)
(* message is emitted, nc and pw are computed, the column loop is entered. *)
ResizeLayout(w, h) ==
    /\ pcPoll = "poll"
    /\ ~TooSmall(w, h)
    /\ PollOp("show")
    /\ vw' = w /\ vh' = h
    /\ drawn' = <<>> /\ helpShown' = TRUE /\ failed' = 0 /\ mhWidths' = {}
    /\ nc' = maxColumns(w, minPanelWidth, maxPanelWidth)
    /\ pw' = maxColumnWidth(w, nc', m)
    /\ c' = 0 /\ py' = 0 /\ p' = 0
    /\ passEnd' = "running"
    /\ pcPoll' = "column"
    /\ UNCHANGED <<pollFrame, lastKey>>

passFrame == <<pollFrame, lastKey, vw, vh, nc, pw, helpShown>>

(* for c := 0; c < nc; c++ { py := m; ... *)
ColumnStart ==
    /\ pcPoll = "column"
    /\ c < nc
    /\ py' = m
    /\ pcPoll' = "block"
    /\ UNCHANGED <<passFrame, c, p, drawn, passEnd, failed, mhWidths,
                   lastOp, usedAfterFini>>

(* c = nc: the column loop is over and drawPanels returns. *)
ColumnsExhausted ==
    /\ pcPoll = "column"
    /\ ~(c < nc)
    /\ passEnd' = "columns"
    /\ pcPoll' = "poll"
    /\ UNCHANGED <<passFrame, c, py, p, drawn, failed, mhWidths,
                   lastOp, usedAfterFini>>

(* for py < h: the cursor has left the viewport, next column. *)
ColumnEnd ==
    /\ pcPoll = "block"
    /\ ~(py < vh)
    /\ c' = c + 1
    /\ pcPoll' = "column"
    /\ UNCHANGED <<passFrame, py, p, drawn, passEnd, failed, mhWidths,
                   lastOp, usedAfterFini>>

(* if p >= len(sm) { break loop } *)
AllDrawn ==
    /\ pcPoll = "block"
    /\ py < vh
    /\ p >= Len(sm)
    /\ passEnd' = "alldrawn"
    /\ pcPoll' = "poll"
    /\ UNCHANGED <<passFrame, c, py, p, drawn, failed, mhWidths,
                   lastOp, usedAfterFini>>

AtBlock == pcPoll = "block" /\ py < vh /\ p < Len(sm)

(* minHeight(pw-2, btext) with pw = 2: integer divide by zero, the process *)
(* dies.                                                                   *)
MeasurePanic ==
    /\ AtBlock
    /\ pw - 2 = 0
    /\ mhWidths' = mhWidths \cup {pw - 2}
    /\ passEnd' = "panic"
    /\ pcPoll' = "panicked"
    /\ UNCHANGED <<passFrame, c, py, p, drawn, failed, lastOp, usedAfterFini>>

(* The block does not fit under the cursor: continue loop (next column),   *)
(* the block cursor p stays.                                               *)
ColumnFullSkipsBlock ==
    /\ AtBlock
    /\ pw - 2 # 0
    /\ ColumnIsFull(py, BodyHeight(CurSection, pw - 2), vh)
    /\ mhWidths' = mhWidths \cup {pw - 2}
    /\ c' = c + 1
    /\ p' = p + 1
    /\ pcPoll' = "column"
    /\ UNCHANGED <<passFrame, py, drawn, passEnd, failed, lastOp, usedAfterFini>>

ColumnFull ==
    /\ AtBlock
    /\ pw - 2 # 0
    /\ ColumnIsFull(py, BodyHeight(CurSection, pw - 2), vh)
    /\ mhWidths' = mhWidths \cup {pw - 2}
    /\ c' = c + 1
    /\ pcPoll' = "column"
    /\ UNCHANGED <<passFrame, py, p, drawn, passEnd, failed, lastOp, usedAfterFini>>

Fits ==
    /\ AtBlock
    /\ pw - 2 # 0
    /\ ~ColumnIsFull(py, BodyHeight(CurSection, pw - 2), vh)

Drawing == drawSection(PanelX, py, pw, BodyHeight(CurSection, pw - 2) + 2,
                       SectionTexts(CurSection), build)

DrawnAfter(r) ==
    IF r.box THEN Append(drawn, Frame(r, BodyHeight(CurSection, pw - 2)))
    ELSE drawn

SurfaceAfter(r) ==
    IF r.box THEN PollOp("show") ELSE UNCHANGED <<lastOp, usedAfterFini>>

(* DrawError without the return: the error is logged and the pass goes on  *)
(* with the next block.                                                    *)
DrawErrorContinues ==
    /\ Fits
    /\ Drawing.kind = "err"
    /\ mhWidths' = mhWidths \cup {pw - 2}
    /\ drawn' = DrawnAfter(Drawing)
    /\ SurfaceAfter(Drawing)
    /\ failed' = p + 1
    /\ p' = p + 1
    /\ UNCHANGED <<passFrame, c, py, passEnd, pcPoll>>

(* err := drawSection(...); if err != nil { log.Error(err); return } *)
DrawError ==
    /\ Fits
    /\ Drawing.kind = "err"
    /\ mhWidths' = mhWidths \cup {pw - 2}
    /\ drawn' = DrawnAfter(Drawing)
    /\ SurfaceAfter(Drawing)
    /\ failed' = p + 1
    /\ passEnd' = "error"
    /\ pcPoll' = "poll"
    /\ UNCHANGED <<passFrame, c, py, p>>

(* drawSection panics (truncate reads past the label's characters): the    *)
(* process dies with the frame already drawn.                              *)
DrawPanic ==
    /\ Fits
    /\ Drawing.kind = "panic"
    /\ mhWidths' = mhWidths \cup {pw - 2}
    /\ drawn' = DrawnAfter(Drawing)
    /\ SurfaceAfter(Drawing)
    /\ passEnd' = "panic"
    /\ pcPoll' = "panicked"
    /\ UNCHANGED <<passFrame, c, py, p, failed>>

(* Place with the cursor moved by bh + 1 only, onto the bottom border row. *)
PlaceShort ==
    /\ Fits
    /\ Drawing.kind = "ok"
    /\ mhWidths' = mhWidths \cup {pw - 2}
    /\ drawn' = DrawnAfter(Drawing)
    /\ SurfaceAfter(Drawing)
    /\ py' = py + BodyHeight(CurSection, pw - 2) + 1
    /\ p' = p + 1
    /\ UNCHANGED <<passFrame, c, passEnd, failed, pcPoll>>

(* drawSection returns nil: py += bh + 2; p++ *)
Place ==
    /\ Fits
    /\ Drawing.kind = "ok"
    /\ mhWidths' = mhWidths \cup {pw - 2}
    /\ drawn' = DrawnAfter(Drawing)
    /\ SurfaceAfter(Drawing)
    /\ py' = py + BodyHeight(CurSection, pw - 2) + 2
    /\ p' = p + 1
    /\ UNCHANGED <<passFrame, c, passEnd, failed, pcPoll>>

(* case tcell.KeyCtrlL: s.Sync() *)
HandleCtrlL ==
    /\ pcPoll = "poll"
    /\ PollOp("sync")
    /\ lastKey' = "CtrlL"
    /\ UNCHANGED <<pollFrame, pcPoll, vw, vh, nc, pw, c, py, p, drawn,
                   helpShown, passEnd, failed, mhWidths>>

(* if ev.Rune() == 'Q' || ev.Rune() == 'q' *)
IsQuitRuneLowerOnly(r) == r = "q"

IsQuitRune(r) == r = "Q" \/ r = "q"

(* close(quit); return *)
HandleQuitKey(r) ==
    /\ pcPoll = "poll"
    /\ IsQuitRune(r)
    /\ lastKey' = r
    /\ quit' = "closed"
    /\ closes' = closes + 1
    /\ pcPoll' = "returned"
    /\ UNCHANGED <<build, sm, m, pcMain, surface, call, ret, vw, vh, nc, pw,
                   c, py, p, drawn, helpShown, passEnd, failed, mhWidths,
                   lastOp, usedAfterFini>>

(* Any other key: nothing happens, the loop polls again. *)
HandleOtherKey(r) ==
    /\ pcPoll = "poll"
    /\ ~IsQuitRune(r)
    /\ lastKey' = r
    /\ UNCHANGED <<pollFrame, pcPoll, vw, vh, nc, pw, c, py, p, drawn,
                   helpShown, passEnd, failed, mhWidths, lastOp, usedAfterFini>>

(* select { case <-quit: break loop } *)
QuitReceivedAlways == TRUE

QuitReceived == quit = "closed"

(* The main goroutine leaves the select and releases the screen: s.Fini(). *)
(* A panic of the polling goroutine ends the whole process.                *)
MainFini ==
    /\ pcMain = "select"
    /\ pcPoll # "panicked"
    /\ QuitReceived
    /\ surface' = "released"
    /\ pcMain' = "done"
    /\ lastOp' = [op |-> "fini", by |-> "main"]
    /\ UNCHANGED <<build, sm, m, pcPoll, quit, closes, usedAfterFini, lastKey,
                   vw, vh, nc, pw, c, py, p, drawn, helpShown, passEnd, failed,
                   mhWidths, call, ret>>

Next ==
    \/ \E w \in ViewWidths, h \in ViewHeights : ResizeTooSmall(w, h)
    \/ \E w \in ViewWidths, h \in ViewHeights : ResizeLayout(w, h)
    \/ ColumnStart
    \/ ColumnsExhausted
    \/ ColumnEnd
    \/ AllDrawn
    \/ MeasurePanic
    \/ ColumnFull
    \/ DrawError
    \/ DrawPanic
    \/ Place
    \/ HandleCtrlL
    \/ \E r \in Runes : HandleQuitKey(r)
    \/ \E r \in Runes : HandleOtherKey(r)
    \/ MainFini

Spec == Init /\ [][Next]_vars

(* The Go scheduler runs a goroutine that can run: once quit is closed the *)
(* main goroutine leaves its select.                                       *)
FairSpec == Spec /\ WF_vars(MainFini)

-----------------------------------------------------------------------------
(* The controller's variables at rest, for the specifications that call a  *)
(* function on its own.                                                    *)
CtlIdle ==
    /\ build = "exact" /\ sm = <<>> /\ m = 0
    /\ pcPoll = "poll" /\ pcMain = "select" /\ quit = "open" /\ closes = 0
    /\ surface = "live" /\ usedAfterFini = FALSE
    /\ lastKey = "none" /\ lastOp = [op |-> "clear", by |-> "main"]
    /\ vw = 0 /\ vh = 0 /\ nc = 0 /\ pw = 0 /\ c = 0 /\ py = 0 /\ p = 0
    /\ drawn = <<>> /\ helpShown = FALSE /\ passEnd = "none" /\ failed = 0
    /\ mhWidths = {}

NoResult == [kind |-> "none"]

(* maxColumns on its own: every viewport width 0..MaxViewWidth, with the   *)
(* panel widths drawPanels passes and one other pair.                      *)
PanelWidthPairs == {<<minPanelWidth, maxPanelWidth>>, <<10, 20>>}

InitColumns ==
    /\ CtlIdle
    /\ call \in {[fn |-> "maxColumns", w |-> w, miw |-> pr[1], maw |-> pr[2]] :
                    w \in 0..MaxViewWidth, pr \in PanelWidthPairs}
    /\ ret = NoResult

CallMaxColumns ==
    /\ call.fn = "maxColumns" /\ ret = NoResult
    /\ ret' = [kind |-> "int", val |-> maxColumns(call.w, call.miw, call.maw)]
    /\ UNCHANGED <<ctlVars, call>>

NextColumns == CallMaxColumns

SpecColumns == InitColumns /\ [][NextColumns]_vars

(* truncate on its own: every text of at most MaxTextChars characters,     *)
(* every width -1..MaxTruncWidth, either toolchain.                        *)
Texts == UNION {[1..n -> Chars] : n \in 0..MaxTextChars}

InitTruncate ==
    /\ CtlIdle
    /\ call \in {[fn |-> "truncate", s |-> s, w |-> w, bld |-> b] :
                    s \in Texts, w \in (-1)..MaxTruncWidth, b \in Builds}
    /\ ret = NoResult

CallTruncate ==
    /\ call.fn = "truncate" /\ ret = NoResult
    /\ ret' = truncate(call.s, call.w, call.bld)
    /\ UNCHANGED <<ctlVars, call>>

NextTruncate == CallTruncate

SpecTruncate == InitTruncate /\ [][NextTruncate]_vars

(* truncate and drawTextBox on their own: every text of at most           *)
(* MaxTextChars characters, one- and two-byte; truncate with every width   *)
(* -1..MaxTruncWidth, drawTextBox with every w and h in -1..MaxBoxSide.    *)
InitTextBox ==
    /\ CtlIdle
    /\ call \in {[fn |-> "truncate", s |-> s, w |-> w, bld |-> b] :
                    s \in Texts, w \in (-1)..MaxTruncWidth, b \in Builds}
          \cup {[fn |-> "drawTextBox", t |-> s, w |-> w, h |-> h, bld |-> b] :
                    s \in Texts, w \in (-1)..MaxBoxSide,
                    h \in (-1)..MaxBoxSide, b \in Builds}
    /\ ret = NoResult

CallDrawTextBox ==
    /\ call.fn = "drawTextBox" /\ ret = NoResult
    /\ ret' = drawTextBox(call.t, call.w, call.h, call.bld)
    /\ UNCHANGED <<ctlVars, call>>

NextTextBox == CallTruncate \/ CallDrawTextBox

SpecTextBox == InitTextBox /\ [][NextTextBox]_vars

(* drawSection on its own, called the way drawPanels calls it: at x, y >= 0 *)
(* with a panel width w and h = bh + 2, bh the sum of minHeight(w - 2, ...) *)
(* over the section's items.  Item texts are "name: cmd", at least two     *)
(* characters, one- and two-byte.                                          *)
ItemTexts == UNION {[1..n -> Chars] : n \in 2..MaxItemChars}

LabelTexts == {<<"a", "a">>, <<"E", "a">>}

SectionsOfTexts ==
    {[label |-> l, aliases |-> as] :
        l \in LabelTexts, as \in UNION {[1..n -> ItemTexts] : n \in 0..2}}

SectionWidths == {3, 4, 6, 10}

InitSection ==
    /\ CtlIdle
    /\ call \in {[fn |-> "drawSection", x |-> 0, y |-> y, w |-> w,
                  h |-> BodyHeight(SectionShape(st), w - 2) + 2,
                  st |-> st, bld |-> b] :
                    y \in 0..1, w \in SectionWidths, st \in SectionsOfTexts,
                    b \in Builds}
    /\ ret = NoResult

CallDrawSection ==
    /\ call.fn = "drawSection" /\ ret = NoResult
    /\ ret' = drawSection(call.x, call.y, call.w, call.h, call.st, call.bld)
    /\ UNCHANGED <<ctlVars, call>>

NextSection == CallDrawSection

SpecSection == InitSection /\ [][NextSection]_vars

-----------------------------------------------------------------------------
(* C2, as stated: every frame drawn in a layout pass, at (x, y) with      *)
(* width w and height h = bh+2, has y + h <= viewportHeight - 1 and        *)
(* x + w <= viewportWidth.                                                 *)
FramesAboveLastRow ==
    \A i \in 1..Len(drawn) :
        /\ drawn[i].y + drawn[i].h <= vh - 1
        /\ drawn[i].x + drawn[i].w <= vw

(* C2, amended: every frame drawn in a layout pass has                     *)
(* y + h <= viewportHeight (its bottom border is at most the last row,     *)
(* viewportHeight - 1) and x + w <= viewportWidth.                         *)
FramesInsideViewport ==
    \A i \in 1..Len(drawn) :
        /\ drawn[i].y + drawn[i].h <= vh
        /\ drawn[i].x + drawn[i].w <= vw

FrameOnLastRowWitness ==
    \E i \in 1..Len(drawn) :
        /\ drawn[i].y + drawn[i].h = vh
        /\ i > 1

(* C4, as stated: a drawSection error abandons only that block; the pass   *)
(* goes on with the blocks that follow and ends as it does without the     *)
(* error, with every block placed or every column visited.                 *)
DrawErrorPassGoesOn ==
    (failed # 0 /\ pcPoll \in {"poll", "returned"}) =>
        passEnd \in {"alldrawn", "columns"}

(* C4, amended: when drawSection returns an error, drawPanels logs it and  *)
(* returns: the pass ends there, the block cursor stays on the failing     *)
(* block and no block after it is placed or drawn.                         *)
DrawErrorEndsPass ==
    failed # 0 =>
        /\ passEnd = "error"
        /\ pcPoll \in {"poll", "returned"}
        /\ p = failed - 1
        /\ \A i \in 1..Len(drawn) : drawn[i].blk <= failed

DrawErrorWitness ==
    /\ failed # 0
    /\ failed < Len(sm)
    /\ Len(drawn) = 1

(* C6: a layout pass on a viewport below the minimum in either dimension   *)
(* (width < 10 or height < 10) writes nothing (no frame, no help message)  *)
(* and raises no error; the polling goroutine is back at PollEvent, which  *)
(* it leaves only on a quit key.                                           *)
SmallViewportDrawsNothing ==
    (passEnd # "none" /\ (vw < minWindowWidth \/ vh < minWindowHeight)) =>
        /\ drawn = <<>>
        /\ ~helpShown
        /\ failed = 0
        /\ mhWidths = {}
        /\ passEnd = "small"
        /\ pcPoll \in {"poll", "returned"}
        /\ (pcPoll = "returned" => lastKey \in {"q", "Q"})

SmallViewportWitness ==
    /\ passEnd = "small"
    /\ vw >= minWindowWidth /\ vh < minWindowHeight
    /\ Len(sm) > 0
    /\ pcPoll = "poll"
    /\ lastKey = "x"

(* C7: a quit key ('q' or 'Q') delivered to the polling goroutine closes   *)
(* quit exactly once and ends the goroutine; the main goroutine then       *)
(* eventually releases the screen (Fini) and DrawScreen returns; the       *)
(* screen is never released before a quit key has been received.           *)
QuitKeyReleasesScreen ==
    /\ [](lastKey \in {"q", "Q"} =>
            (quit = "closed" /\ closes = 1 /\ pcPoll = "returned"))
    /\ [](closes <= 1)
    /\ [](surface = "released" => (lastKey \in {"q", "Q"} /\ pcMain = "done"))
    /\ (lastKey \in {"q", "Q"} ~> (surface = "released" /\ pcMain = "done"))

QuitKeyWitness ==
    /\ lastKey = "Q"
    /\ closes = 1
    /\ surface = "released"
    /\ pcMain = "done"

(* C8: drawPanels places blocks through one cursor shared by all columns:  *)
(* the frames drawn are those of a prefix of the sorted labels, in order,  *)
(* each once, with non-decreasing column index; a pass that ends without   *)
(* error has placed every block or visited every column; a block that      *)
(* does not fit at the top of a column is never placed, nor is any block   *)
(* after it.                                                               *)
SharedCursorPlacement ==
    /\ p <= Len(sm)
    /\ c <= nc
    /\ (pcPoll = "block" => c < nc)
    /\ \A i \in 1..Len(drawn) : drawn[i].blk = i
    /\ \A i, j \in 1..Len(drawn) : i <= j => drawn[i].col <= drawn[j].col
    /\ (passEnd \in {"running", "alldrawn", "columns"} => Len(drawn) = p)
    /\ (passEnd = "alldrawn" => p = Len(sm))
    /\ (passEnd = "columns" => c = nc)
    /\ \A k \in 1..Len(sm) :
          (passEnd \notin {"none", "small"} /\ pw - 2 # 0
              /\ m + BodyHeight(sm[k], pw - 2) - 1 >= vh - 2)
          => Len(drawn) < k

SharedCursorWitness ==
    /\ passEnd = "columns"
    /\ nc = 2
    /\ Len(sm) = 3
    /\ Len(drawn) = 2
    /\ drawn[1].col = 0
    /\ drawn[2].col = 1

(* C9: minHeight is never called with a width below 1 in a layout pass on  *)
(* a viewport of at least 10 x 10, for any margin m >= 0.                  *)
MinHeightWidthAtLeastOne ==
    \A x \in mhWidths : x >= 1

(* C10: the screen is never used by both goroutines at once: after the     *)
(* polling goroutine has started, the main goroutine's only operation is   *)
(* Fini, which happens only after the polling goroutine has returned, and  *)
(* no Sync, Clear, SetContent or Show runs on a released screen.           *)
ScreenOwnedByPoller ==
    /\ ~usedAfterFini
    /\ (surface = "released" => pcPoll = "returned")
    /\ (pcMain = "done" => surface = "released")
    /\ (lastOp.by = "main" /\ lastOp.op # "fini" =>
            (surface = "live" /\ passEnd = "none" /\ lastKey # "CtrlL"))

ScreenReleasedAfterDrawWitness ==
    /\ surface = "released"
    /\ Len(drawn) > 0
    /\ pcPoll = "returned"

(* C1: maxColumns(w, miw, maw) is the larger of (w-2) div (miw+2) and      *)
(* (w-2) div (maw+2), and exactly 1 when both are zero; in particular      *)
(* maxColumns(100, 40, 50) = 2.                                            *)
LargerCandidate(w, miw, maw) ==
    LET x1 == Quot(w - 2, miw + 2)
        x2 == Quot(w - 2, maw + 2)
    IN IF x1 = 0 /\ x2 = 0 THEN 1 ELSE IF x1 > x2 THEN x1 ELSE x2

MaxColumnsIsLargerCandidate ==
    ret.kind = "int" =>
        /\ ret.val = LargerCandidate(call.w, call.miw, call.maw)
        /\ (call.w = 100 /\ call.miw = 40 /\ call.maw = 50 => ret.val = 2)

(* C5: with the panel widths in use (40, 50), maxColumns returns at least  *)
(* 1 for every viewport width w >= 0, w = 0 and w = 1 included.            *)
MaxColumnsAtLeastOne ==
    (ret.kind = "int" /\ call.miw = minPanelWidth /\ call.maw = maxPanelWidth
        /\ call.w >= 0) => ret.val >= 1

MaxColumnsNegativeSpaceWitness ==
    /\ ret.kind = "int" /\ call.miw = minPanelWidth /\ call.maw = maxPanelWidth
    /\ call.w = 0 /\ ret.val = 1

(* C3: for every w >= 3 and every text s of more than w characters,        *)
(* truncate(s, w) returns, without error, a string of exactly w characters *)
(* whose last three are the ellipsis marker.                               *)
EndsWithEllipsis(t) ==
    Len(t) >= 3 /\ SubSeq(t, Len(t) - 2, Len(t)) = Ellipsis

TruncateFitsWithEllipsis ==
    (ret.kind # "none" /\ call.fn = "truncate" /\ call.w >= 3
        /\ Len(call.s) > call.w) =>
            /\ ret.kind = "ok"
            /\ Len(ret.val) = call.w
            /\ EndsWithEllipsis(ret.val)

(* C11: for every block drawPanels places (height bh+2, bh summed by       *)
(* minHeight at width pw-2 >= 1) on which drawSection returns no error,    *)
(* drawSection renders every item of the group: the out-of-bounds          *)
(* short-circuit is not taken, every body row lies strictly between the    *)
(* top border row y and the bottom border row y+h-1, and the number of     *)
(* items rendered is the number of items of the group.                     *)
SectionRendersEveryItem ==
    (call.fn = "drawSection" /\ call.w - 2 >= 1
        /\ ret.kind # "none" /\ ret.kind # "err") =>
            /\ ret.kind = "ok"
            /\ ~ret.cut
            /\ ret.items = Len(call.st.aliases)
            /\ \A r \in ret.rows : call.y < r /\ r < call.y + call.h - 1

(* C12: in every layout pass with margin m >= 0 no two placed sections     *)
(* overlap: of two frames in the same column the later one starts at or    *)
(* below the row after the earlier one's bottom border, frames in          *)
(* different columns occupy disjoint column ranges, and the frame of       *)
(* column c starts at x = m + (pw+m)*c.                                    *)
FramesDoNotOverlap ==
    /\ \A i \in 1..Len(drawn) : drawn[i].x = m + (pw + m) * drawn[i].col
    /\ \A i, j \in 1..Len(drawn) : i < j =>
          /\ (drawn[i].col = drawn[j].col =>
                 drawn[i].y + drawn[i].h <= drawn[j].y)
          /\ (drawn[i].col # drawn[j].col =>
                 drawn[i].x + drawn[i].w <= drawn[j].x)

TwoColumnsThreeFramesWitness ==
    /\ m >= 1
    /\ Len(drawn) = 3
    /\ drawn[1].col = 0 /\ drawn[2].col = 0 /\ drawn[3].col = 1
    /\ drawn[2].y = drawn[1].y + drawn[1].h
    /\ drawn[3].x = drawn[1].x + drawn[1].w + m

(* C13: for every text, multi-byte or not, and every w >= 0, h >= 0,       *)
(* truncate and drawTextBox read no character index at or beyond the       *)
(* number of characters of the text they index.                            *)
NoOutOfRangeRead ==
    (ret.kind # "none" /\ call.w >= 0
        /\ (call.fn = "drawTextBox" => call.h >= 0)) =>
            ret.kind # "panic"

=============================================================================
